---- MODULE Spec2Model ----
(***************************************************************************)
(* Model of power_triangle_harmonics.py: three editable text fields, a 3D  *)
(* axes holding the quiver arrows, a read-only report box, and the submit  *)
(* callback that re-runs update_plot from the fields' texts.               *)
(*                                                                         *)
(* Numbers.  The program computes with IEEE-754 doubles.  A double that    *)
(* the model reaches is written                                            *)
(*     [k |-> "fin", sg, n, d, e]   for   sg * sqrt(n/d) * 10^e            *)
(* (n/d in lowest terms, sg in {-1,0,1}), or NaN, or Inf.  Keeping the     *)
(* radicand n/d makes sqrt, tan(arccos(.)) and the Pythagorean sums exact; *)
(* the decimal exponent e is 0 for ordinary magnitudes and -200 for the    *)
(* text "1e-200", whose square lies below the smallest double and is       *)
(* therefore 0.0 in the program.                                           *)
(***************************************************************************)
EXTENDS Integers, Sequences, FiniteSets, TLC

VARIABLES
    textboxes,    \* textboxes[i].text: the current text of each input field
    collections,  \* ax.collections: the quiver arrows held by the axes, in order
    lims,         \* the upper axis limit set by set_xlim/set_ylim/set_zlim
    text_box,     \* the content of the read-only report box
    stale,        \* the axes were changed after the last fig.canvas.draw()
    last          \* the outcome of the last update: arguments, derived values

vars == <<textboxes, collections, lims, text_box, stale, last>>

\* Largest integer that is typed into a field as text ("0" .. "MaxMag").
MaxMag == 1

----------------------------------------------------------------------------
\* Doubles

RECURSIVE GCD(_, _)
GCD(a, b) == IF b = 0 THEN a ELSE GCD(b, a % b)

NaN == [k |-> "nan", sg |-> 0, n |-> 0, d |-> 1, e |-> 0]
Inf == [k |-> "inf", sg |-> 1, n |-> 0, d |-> 1, e |-> 0]
Zero == [k |-> "fin", sg |-> 0, n |-> 0, d |-> 1, e |-> 0]

\* sg * sqrt(n/d) * 10^e, normalised
Fin(sg, n, d, e) ==
    IF sg = 0 \/ n = 0 THEN Zero
    ELSE LET g == GCD(n, d)
         IN  [k |-> "fin", sg |-> sg, n |-> n \div g, d |-> d \div g, e |-> e]

IntVal(i) == Fin(IF i < 0 THEN -1 ELSE IF i = 0 THEN 0 ELSE 1, i * i, 1, 0)

IsNaN(x) == x.k = "nan"

\* three-way comparison of the magnitudes of two non-zero, non-NaN doubles
MagCmp(x, y) ==
    CASE x.k = "inf" /\ y.k = "inf" -> 0
      [] x.k = "inf" -> 1
      [] y.k = "inf" -> -1
      [] x.e # y.e -> IF x.e < y.e THEN -1 ELSE 1
      [] OTHER -> IF x.n * y.d < y.n * x.d THEN -1
                  ELSE IF x.n * y.d = y.n * x.d THEN 0 ELSE 1

\* three-way comparison of two non-NaN doubles
Cmp(x, y) ==
    IF x.sg # y.sg THEN (IF x.sg < y.sg THEN -1 ELSE 1)
    ELSE IF x.sg = 0 THEN 0
    ELSE x.sg * MagCmp(x, y)

\* Python's <, <=, ==, > on floats: every comparison with NaN is False
Lt(x, y) == ~IsNaN(x) /\ ~IsNaN(y) /\ Cmp(x, y) < 0
Le(x, y) == ~IsNaN(x) /\ ~IsNaN(y) /\ Cmp(x, y) <= 0
Eq(x, y) == ~IsNaN(x) /\ ~IsNaN(y) /\ Cmp(x, y) = 0
Gt(x, y) == Lt(y, x)

One == IntVal(1)
Two == IntVal(2)

\* x * y (P1_mag * np.tan(fi), max(...) * 2); no product of the model leaves
\* the double range
Mul(x, y) ==
    CASE IsNaN(x) \/ IsNaN(y) -> NaN
      [] x.k = "fin" /\ y.k = "fin" ->
            Fin(x.sg * y.sg, x.n * y.n, x.d * y.d, x.e + y.e)

\* x / y with a numpy float64 divisor: a zero divisor gives inf (or nan for
\* 0/0) and a warning, not an exception
Div(x, y) ==
    CASE IsNaN(x) \/ IsNaN(y) -> NaN
      [] x.k = "fin" /\ y.k = "fin" /\ y.sg = 0 ->
            IF x.sg = 0 THEN NaN ELSE Inf
      [] x.k = "fin" /\ y.k = "fin" /\ y.sg # 0 ->
            Fin(x.sg * y.sg, x.n * y.d, x.d * y.n, x.e - y.e)

\* x + y and x - y on vector components: in the program one operand is 0,
\* or both are the same number
Add(x, y) ==
    CASE IsNaN(x) \/ IsNaN(y) -> NaN
      [] x = Zero -> y
      [] y = Zero -> x

Sub(x, y) ==
    CASE IsNaN(x) \/ IsNaN(y) -> NaN
      [] y = Zero -> x
      [] x = y -> Zero

\* Squares are plain fractions n/d (or NaN): [k, n, d]
FNaN == [k |-> "nan", n |-> 0, d |-> 1]

Frac(n, d) ==
    LET g == GCD(n, d)
    IN  IF n = 0 THEN [k |-> "fin", n |-> 0, d |-> 1]
        ELSE [k |-> "fin", n |-> n \div g, d |-> d \div g]

\* x**2.  The square of sqrt(n/d) * 10^e is (n/d) * 10^(2e); below 10^-323 no
\* double is left and the result is 0.0 (underflow).
Pow2(x) ==
    CASE IsNaN(x) -> FNaN
      [] x.k = "fin" /\ 2 * x.e < -323 -> Frac(0, 1)
      [] x.k = "fin" /\ x.e = 0 -> Frac(x.n, x.d)

\* a + b on squares
FAdd(a, b) ==
    IF a.k = "nan" \/ b.k = "nan" THEN FNaN
    ELSE Frac(a.n * b.d + b.n * a.d, a.d * b.d)

\* np.sqrt of a sum of squares
Sqrt(a) == IF a.k = "nan" THEN NaN ELSE Fin(1, a.n, a.d, 0)

\* Angles are kept by their cosine: np.arccos(r) is [k |-> "acos", of |-> r]
\* for -1 <= r <= 1 and nan otherwise; the integer 0 assigned to theta is
\* ZeroAngle.
NaNAngle == [k |-> "nan", of |-> NaN]
ZeroAngle == [k |-> "zero", of |-> Zero]

ArcCos(r) ==
    IF IsNaN(r) \/ r.k = "inf" \/ Gt(r, One) \/ Lt(r, IntVal(-1))
    THEN NaNAngle
    ELSE [k |-> "acos", of |-> r]

\* np.tan(np.arccos(c)) for 0 < c < 1: sqrt(1 - c^2) / c, and c^2 = n/d
Tan(fi) ==
    CASE fi.k = "acos" /\ fi.of.sg = 1 /\ fi.of.e = 0 /\ fi.of.n < fi.of.d ->
            Fin(1, fi.of.d - fi.of.n, fi.of.n, 0)

\* np.degrees(a)
Degrees(a) == [k |-> "deg", of |-> a]

\* Python's max(a, b): b when b > a, else a (so max(a, nan) is a)
PyMax(a, b) == IF Gt(b, a) THEN b ELSE a

----------------------------------------------------------------------------
\* The input fields

Fields == {"P1", "cos_fi", "D"}

IntTexts == {ToString(i) : i \in 0..MaxMag}

Texts == IntTexts \cup {"-1", "0.8", "0.6", "1e-200", "nan", "abc"}

\* The texts typed into each field.  A NaN active power and a cos(fi) of
\* 1e-200 are left out: their outcome is decided inside the plotting and
\* numeric libraries (ax.set_xlim on a NaN limit, tan at the double nearest
\* pi/2), not by this program.
FieldTexts(f) ==
    CASE f = "P1" -> Texts \ {"nan"}
      [] f = "cos_fi" -> Texts \ {"1e-200"}
      [] f = "D" -> Texts

\* float(text): whether it raises ValueError, and the double it returns
IsNumeric(t) == t # "abc"

Float(t) ==
    CASE t \in IntTexts -> IntVal(CHOOSE i \in 0..MaxMag : ToString(i) = t)
      [] t = "-1" -> IntVal(-1)
      [] t = "0.8" -> Fin(1, 16, 25, 0)
      [] t = "0.6" -> Fin(1, 9, 25, 0)
      [] t = "1e-200" -> Fin(1, 1, 1, -200)
      [] t = "nan" -> NaN

----------------------------------------------------------------------------
\* update_plot

\* ClearArrows with the removal loop left out
KeepArrows(held) == held

\* for line in ax.collections + ax.lines: line.remove()
ClearArrows(held) == << >>

\* the range check that raises ValueError
OutOfRange(P1_mag, cos_fi, D_mag) ==
    \/ Le(P1_mag, Zero)
    \/ Lt(D_mag, Zero)
    \/ ~(Lt(Zero, cos_fi) /\ Lt(cos_fi, One))

\* Calc without the D_mag == 0 branch
CalcAlwaysPythagoras(P1_mag, cos_fi, D_mag) ==
    LET fi == ArcCos(cos_fi)
        Q1_mag == Mul(P1_mag, Tan(fi))
        S1_mag == Sqrt(FAdd(Pow2(P1_mag), Pow2(Q1_mag)))
        S2_mag == Sqrt(FAdd(Pow2(S1_mag), Pow2(D_mag)))
        Q2_mag == Sqrt(FAdd(Pow2(Q1_mag), Pow2(D_mag)))
    IN  [fi |-> fi, Q1_mag |-> Q1_mag, S1_mag |-> S1_mag,
         S2_mag |-> S2_mag, Q2_mag |-> Q2_mag,
         theta |-> ArcCos(Div(P1_mag, S2_mag))]

\* "Necessary calculations"
Calc(P1_mag, cos_fi, D_mag) ==
    LET fi == ArcCos(cos_fi)
        Q1_mag == Mul(P1_mag, Tan(fi))
        S1_mag == Sqrt(FAdd(Pow2(P1_mag), Pow2(Q1_mag)))
    IN  IF Eq(D_mag, Zero)
        THEN [fi |-> fi, Q1_mag |-> Q1_mag, S1_mag |-> S1_mag,
              S2_mag |-> Zero, Q2_mag |-> Zero, theta |-> ZeroAngle]
        ELSE LET S2_mag == Sqrt(FAdd(Pow2(S1_mag), Pow2(D_mag)))
                 Q2_mag == Sqrt(FAdd(Pow2(Q1_mag), Pow2(D_mag)))
             IN  [fi |-> fi, Q1_mag |-> Q1_mag, S1_mag |-> S1_mag,
                  S2_mag |-> S2_mag, Q2_mag |-> Q2_mag,
                  theta |-> ArcCos(Div(P1_mag, S2_mag))]

VecAdd(a, b) == <<Add(a[1], b[1]), Add(a[2], b[2]), Add(a[3], b[3])>>
VecSub(a, b) == <<Sub(a[1], b[1]), Sub(a[2], b[2]), Sub(a[3], b[3])>>
Origin == <<Zero, Zero, Zero>>

\* ax.quiver(x, y, z, u, v, w, color=..., label=...): one arrow collection
Quiver(at, dir, color, label) ==
    [label |-> label, color |-> color, at |-> at, dir |-> dir]

\* "Coordinates for the vectors" and "Add the vectors to the chart"
Quivers(P1_mag, Q1_mag, D_mag) ==
    LET P == <<P1_mag, Zero, Zero>>
        Q1 == <<Zero, Q1_mag, Zero>>
        S1 == VecAdd(P, Q1)
        D == <<Zero, Zero, D_mag>>
        S2 == VecAdd(S1, D)
        Q2 == VecSub(S2, P)
    IN  << Quiver(Origin, P, "r", "P"),
           Quiver(P, Q1, "maroon", "Q1"),
           Quiver(Origin, S1, "g", "S1") >>
        \o (IF Gt(D_mag, Zero)
            THEN << Quiver(S1, D, "orange", "D"),
                    Quiver(P, Q2, "purple", "Q2"),
                    Quiver(Origin, S2, "b", "S2") >>
            ELSE << >>)

\* max_lim = max(P1_mag, D_mag) * 2
MaxLim(P1_mag, D_mag) == Mul(PyMax(P1_mag, D_mag), Two)

\* A slot of the report that is literal text in the format string
Lit(s) == [k |-> "lit", s |-> s]

\* update_text_box: the value rendered into each slot of the report (the
\* numeric slots are rendered with two decimals)
update_text_box(P1_mag, cos_fi, D_mag, S1_mag, Q1_mag, S2_mag, Q2_mag, fi, theta) ==
    IF Eq(D_mag, Zero)
    THEN [S1 |-> S1_mag, Q1 |-> Q1_mag, P |-> P1_mag, cos |-> cos_fi,
          phi |-> Degrees(fi), D |-> D_mag,
          S2 |-> Lit("0"), Q2 |-> Lit("0"), pf |-> Lit("0"), theta |-> Lit("0")]
    ELSE [S1 |-> S1_mag, Q1 |-> Q1_mag, P |-> P1_mag, cos |-> cos_fi,
          phi |-> Degrees(fi), D |-> D_mag,
          S2 |-> S2_mag, Q2 |-> Q2_mag, pf |-> Div(P1_mag, S2_mag),
          theta |-> Degrees(theta)]

\* What update_plot computes and draws once the range check has passed: the
\* derived values, the arrows, the axis limit and the report
Drawing(P1_mag, cos_fi, D_mag) ==
    LET c == Calc(P1_mag, cos_fi, D_mag)
    IN  [quivers |-> Quivers(P1_mag, c.Q1_mag, D_mag),
         max_lim |-> MaxLim(P1_mag, D_mag),
         report |-> update_text_box(P1_mag, cos_fi, D_mag, c.S1_mag, c.Q1_mag,
                        c.S2_mag, c.Q2_mag, c.fi, c.theta),
         derived |-> c]

\* The argument triples float() can hand to update_plot, and Drawing
\* tabulated over those that pass the range check
ArgTriples ==
    {<<Float(tp), Float(tc), Float(td)>> :
        tp \in {t \in FieldTexts("P1") : IsNumeric(t)},
        tc \in {t \in FieldTexts("cos_fi") : IsNumeric(t)},
        td \in {t \in FieldTexts("D") : IsNumeric(t)}}

DrawingOf ==
    [a \in {b \in ArgTriples : ~OutOfRange(b[1], b[2], b[3])} |->
        Drawing(a[1], a[2], a[3])]

\* update_plot emptying the report box along with the arrows, before the
\* range check
update_plot_blank_first(P1_mag, cos_fi, D_mag, ax) ==
    LET cleared == ClearArrows(ax.collections)
    IN  IF OutOfRange(P1_mag, cos_fi, D_mag)
        THEN [collections |-> cleared, lims |-> ax.lims,
              text_box |-> Lit(""), raised |-> TRUE, derived |-> << >>]
        ELSE LET d == DrawingOf[<<P1_mag, cos_fi, D_mag>>]
             IN  [collections |-> cleared \o d.quivers,
                  lims |-> d.max_lim,
                  text_box |-> d.report,
                  raised |-> FALSE, derived |-> d.derived]

\* update_plot(P1_mag, cos_fi, D_mag, ax): the axes and report it leaves, and
\* whether it raised.  ax is [collections, lims, text_box].
update_plot(P1_mag, cos_fi, D_mag, ax) ==
    LET cleared == ClearArrows(ax.collections)
    IN  IF OutOfRange(P1_mag, cos_fi, D_mag)
        THEN [collections |-> cleared, lims |-> ax.lims,
              text_box |-> ax.text_box, raised |-> TRUE, derived |-> << >>]
        ELSE LET d == DrawingOf[<<P1_mag, cos_fi, D_mag>>]
             IN  [collections |-> cleared \o d.quivers,
                  lims |-> d.max_lim,
                  text_box |-> d.report,
                  raised |-> FALSE, derived |-> d.derived]

----------------------------------------------------------------------------
\* submit

\* submit_args taking the other two values from the last accepted update (the
\* values the report shows) instead of the fields' current texts
submit_args_accepted(text, input_type) ==
    IF IsNumeric(text)
    THEN [ok |-> TRUE,
          P1_mag |-> IF input_type = "P1" THEN Float(text) ELSE text_box.P,
          cos_fi |-> IF input_type = "cos_fi" THEN Float(text) ELSE text_box.cos,
          D_mag |-> IF input_type = "D" THEN Float(text) ELSE text_box.D]
    ELSE [ok |-> FALSE, P1_mag |-> NaN, cos_fi |-> NaN, D_mag |-> NaN]

\* The three float(...) conversions of submit: the submitted text for its own
\* field, the current texts of the other two fields
submit_args(text, input_type) ==
    LET src == [f \in Fields |-> IF f = input_type THEN text ELSE textboxes[f]]
    IN  IF \A f \in Fields : IsNumeric(src[f])
        THEN [ok |-> TRUE, P1_mag |-> Float(src["P1"]),
              cos_fi |-> Float(src["cos_fi"]), D_mag |-> Float(src["D"])]
        ELSE [ok |-> FALSE, P1_mag |-> NaN, cos_fi |-> NaN, D_mag |-> NaN]

\* submit(text, ax, fig, input_type), run by the field's on_submit with the
\* field already holding the submitted text
submit(text, input_type) ==
    \E a \in {submit_args(text, input_type)} :
        /\ textboxes' = [textboxes EXCEPT ![input_type] = text]
        /\ IF ~a.ok
           THEN /\ UNCHANGED <<collections, lims, text_box, stale>>
                /\ last' = [outcome |-> "parse", args |-> << >>, derived |-> << >>]
           ELSE \E r \in {update_plot(a.P1_mag, a.cos_fi, a.D_mag,
                              [collections |-> collections, lims |-> lims,
                               text_box |-> text_box])} :
                    /\ collections' = r.collections
                    /\ lims' = r.lims
                    /\ text_box' = r.text_box
                    /\ stale' = IF r.raised
                                THEN stale \/ r.collections # collections
                                          \/ r.lims # lims
                                ELSE FALSE
                    /\ last' = [outcome |-> IF r.raised THEN "range" ELSE "ok",
                                args |-> <<a.P1_mag, a.cos_fi, a.D_mag>>,
                                derived |-> r.derived]

\* text_box_P1.on_submit, text_box_cos_fi.on_submit, text_box_D.on_submit
SubmitP1 == \E text \in FieldTexts("P1") : submit(text, "P1")
SubmitCosFi == \E text \in FieldTexts("cos_fi") : submit(text, "cos_fi")
SubmitD == \E text \in FieldTexts("D") : submit(text, "D")

\* Module initialisation: the three fields with their initial texts, then
\* update_plot(1, 0.8, 1, ax) on the empty axes, then plt.show()
Init ==
    LET r == update_plot(IntVal(1), Fin(1, 16, 25, 0), IntVal(1),
                 [collections |-> << >>, lims |-> One, text_box |-> Lit("")])
    IN  /\ textboxes = [f \in Fields |->
                CASE f = "P1" -> "1" [] f = "cos_fi" -> "0.8" [] f = "D" -> "1"]
        /\ collections = r.collections
        /\ lims = r.lims
        /\ text_box = r.text_box
        /\ stale = FALSE
        /\ last = [outcome |-> "init",
                   args |-> <<IntVal(1), Fin(1, 16, 25, 0), IntVal(1)>>,
                   derived |-> r.derived]

Next == SubmitP1 \/ SubmitCosFi \/ SubmitD

Spec == Init /\ [][Next]_vars

----------------------------------------------------------------------------
\* Properties

\* the last update_plot returned normally (the initial one included)
Succeeded == last.outcome \in {"init", "ok"}

\* The documented input range: P > 0, 0 < cos(fi) < 1, D >= 0
Valid(P1_mag, cos_fi, D_mag) ==
    /\ Gt(P1_mag, Zero)
    /\ Lt(Zero, cos_fi) /\ Lt(cos_fi, One)
    /\ Le(Zero, D_mag)

FieldsNumeric == \A f \in Fields : IsNumeric(textboxes[f])
FieldArgs ==
    <<Float(textboxes["P1"]), Float(textboxes["cos_fi"]), Float(textboxes["D"])>>

\* The display is the one derived from the fields' current texts
DisplayMatchesFields ==
    /\ FieldsNumeric
    /\ ~OutOfRange(FieldArgs[1], FieldArgs[2], FieldArgs[3])
    /\ \E d \in {Drawing(FieldArgs[1], FieldArgs[2], FieldArgs[3])} :
          /\ collections = d.quivers
          /\ lims = d.max_lim
          /\ text_box = d.report

Labels(held) == [i \in 1..Len(held) |-> held[i].label]

\* C1: a failed submission (non-numeric text or values out of range) leaves
\* the arrows held by the axes exactly as they were before it.
C1_FailedSubmitKeepsArrows ==
    [][last'.outcome \in {"parse", "range"} => collections' = collections]_vars

\* C2: a failed submission leaves the report box exactly as it was: the
\* report is rewritten only by an update that passed the range check and
\* finished its calculations.
C2_FailedSubmitKeepsReport ==
    [][/\ last'.outcome \in {"parse", "range"} => text_box' = text_box
       /\ text_box' # text_box => last'.outcome = "ok"]_vars

\* a range failure has emptied the axes while the report still shows the
\* last accepted values
C2_Witness ==
    /\ last.outcome = "range"
    /\ collections = << >>
    /\ text_box.P # last.args[1]

\* C3 (as stated): in every state, after successful and failed submissions
\* alike, the arrows and the report are those derived from the three texts
\* currently held by the fields.
C3_DisplayAlwaysMatchesFields == DisplayMatchesFields

\* C3 (amended): initially and whenever the most recent submission
\* succeeded, the arrows, axis limit and report are those derived from the
\* three texts currently held by the fields.
C3_DisplayMatchesFieldsAfterSuccess == Succeeded => DisplayMatchesFields

\* all three fields have been edited and the display follows them
C3_Witness ==
    /\ last.outcome = "ok"
    /\ textboxes["P1"] = "1e-200"
    /\ textboxes["cos_fi"] = "0.6"
    /\ textboxes["D"] = "0"
    /\ Len(collections) = 3

\* C4: for every triple handed to update_plot, the update succeeds exactly
\* when P > 0, 0 < cos(fi) < 1 and D >= 0, and otherwise raises the range
\* error.
C4_SucceedsIffValid ==
    last.outcome # "parse" =>
        (Succeeded <=> Valid(last.args[1], last.args[2], last.args[3]))

\* C5: a successful update with D = 0 leaves S2, Q2 and theta at 0, draws
\* exactly the arrows P, Q1, S1 and reports S2, Q2, power factor and theta
\* as the literal 0; with D > 0 all six arrows are drawn.
C5_ZeroDistortion ==
    Succeeded =>
        /\ Eq(last.args[3], Zero) =>
              /\ last.derived.S2_mag = Zero
              /\ last.derived.Q2_mag = Zero
              /\ last.derived.theta = ZeroAngle
              /\ Labels(collections) = <<"P", "Q1", "S1">>
              /\ text_box.S2 = Lit("0") /\ text_box.Q2 = Lit("0")
              /\ text_box.pf = Lit("0") /\ text_box.theta = Lit("0")
        /\ Gt(last.args[3], Zero) =>
              Labels(collections) = <<"P", "Q1", "S1", "D", "Q2", "S2">>

\* an accepted D = 0 after the initial D = 1
C5_Witness ==
    /\ last.outcome = "ok"
    /\ Eq(last.args[3], Zero)
    /\ text_box.S2 = Lit("0")
    /\ last.derived.S2_mag = Zero

\* C6: for valid inputs S1 >= P, and with D > 0 also S2 >= S1 and Q2 >= Q1.
C6_MagnitudesOrdered ==
    (Succeeded /\ Valid(last.args[1], last.args[2], last.args[3])) =>
        /\ Le(last.args[1], last.derived.S1_mag)
        /\ Gt(last.args[3], Zero) =>
              /\ Le(last.derived.S1_mag, last.derived.S2_mag)
              /\ Le(last.derived.Q1_mag, last.derived.Q2_mag)

\* C7: the ratio P/S2 is evaluated only on the D != 0 branch, where S2 > 0
\* and 0 < P/S2 <= 1; on the D = 0 branch the report prints the literal 0.
C7_PowerFactorInRange ==
    Succeeded =>
        IF Eq(last.args[3], Zero)
        THEN text_box.pf = Lit("0")
        ELSE /\ Gt(last.derived.S2_mag, Zero)
             /\ Gt(text_box.pf, Zero)
             /\ Le(text_box.pf, One)

\* C8: after a successful update the axes hold exactly the arrows that this
\* update drew (3 when D = 0, 6 when D > 0) and none of an earlier update.
C8_OnlyCurrentArrows ==
    Succeeded =>
        /\ collections =
              Quivers(last.args[1], last.derived.Q1_mag, last.args[3])
        /\ Eq(last.args[3], Zero) => Len(collections) = 3
        /\ Gt(last.args[3], Zero) => Len(collections) = 6

\* D was switched from the initial 1 to 0 and only three arrows are left
C8_Witness ==
    /\ last.outcome = "ok"
    /\ textboxes["D"] = "0"
    /\ Len(collections) = 3

\* C9: whenever submit returns, every change it made to the axes has been
\* followed by fig.canvas.draw().
C9_RedrawAfterMutation == ~stale

\* C10: a submission succeeds exactly when the submitted text and the current
\* texts of the other two fields all parse as numbers that lie in the
\* documented range.
C10_SucceedsIffFieldsValid ==
    last.outcome # "init" =>
        (last.outcome = "ok" <=>
            (FieldsNumeric /\ Valid(FieldArgs[1], FieldArgs[2], FieldArgs[3])))

====
